---------------------------- MODULE Spec2Model ----------------------------
(***************************************************************************)
(* Client synchronization engine of the werewolf front end:                *)
(*   - useWebSocket (connection manager, heartbeat, reconnect, event queue)*)
(*   - useGame      (event reducer run by an effect on lastMessage, and    *)
(*                   the command senders)                                  *)
(* Every handler of the two hooks is one action.  The browser's WebSocket  *)
(* objects are modelled by their readyState; their callbacks stay attached *)
(* to the object that was created with them, whatever wsRef holds later.   *)
(***************************************************************************)
EXTENDS Integers, Sequences, FiniteSets, TLC

(***************************************************************************)
(* Bounds of the model.                                                    *)
(***************************************************************************)
\* WebSocket objects that can be alive (or referenced) at the same time.
MaxSessions == 4
\* Forwarded (decoded, non-pong) frames in one run.
MaxFrames == 2
\* Frames transmitted to the server in one run.
MaxWire == 1
\* Forwarded frames in one run of the reducer specifications.
MaxGameFrames == 6

NULL == 0
Sessions == 1..MaxSessions

VARIABLES
    wsUrlValid,           \* whether new WebSocket(WS_URL) constructs (else throws)
    ws,                   \* readyState of every WebSocket object
    wsRef,                \* wsRef.current
    isConnected,          \* useState isConnected
    reconnectTimeoutRef,  \* reconnectTimeoutRef.current (a timer handle)
    timers,               \* pending setTimeout handles
    pingIntervalRef,      \* pingIntervalRef.current (an interval handle)
    intervals,            \* running setInterval handles
    lastMessage,          \* useState lastMessage
    messageQueue,         \* useState messageQueue
    wire,                 \* frames handed to WebSocket.send, in order
    gameData,             \* useState gameData of useGame
    effectDep,            \* identity of the lastMessage the effect last ran for
    applied,              \* history: identities of the frames the effect applied
    tornDown,             \* history: disconnect() was called, and connect() not since
    op                    \* history: the handler that ran last, and its input

connVars == <<wsUrlValid, ws, wsRef, isConnected, reconnectTimeoutRef, timers,
              pingIntervalRef, intervals>>
msgVars == <<lastMessage, messageQueue>>
gameVars == <<gameData, effectDep, applied>>
vars == <<wsUrlValid, ws, wsRef, isConnected, reconnectTimeoutRef, timers,
          pingIntervalRef, intervals, lastMessage, messageQueue, wire,
          gameData, effectDep, applied, tornDown, op>>


(***************************************************************************)
(* Values.  An absent JavaScript value is written as follows: a null id is *)
(* NULL, an undefined string is UNDEF, and an optional field of any other  *)
(* type is None or Some(v).                                                *)
(***************************************************************************)
UNDEF == "undefined"
None == <<>>
Some(v) == <<v>>

\* A text is a sequence of words; String.prototype.includes(marker) on it.
Includes(text, word) == \E i \in 1..Len(text) : text[i] = word
CloseEyesMarker == "qing_bi_yan"

\* One entry of systemMessages: a fixed text with the interpolated name and id.
Msg(text, name, id) == [text |-> text, name |-> name, id |-> id]

NullMessage == [id |-> 0, type |-> "null", data |-> [none |-> TRUE]]
NoAction == [action |-> "null"]

\* useState<GameData>({...}) of useGame.
InitialGameData ==
    [gameId |-> "null",
     players |-> <<>>,
     phase |-> "waiting",
     round |-> 0,
     currentSpeaker |-> NULL,
     humanPlayerId |-> NULL,
     humanRole |-> "null",
     humanRoleName |-> "",
     roleDescription |-> "",
     result |-> "ongoing",
     speeches |-> <<>>,
     systemMessages |-> <<>>,
     actionRequired |-> NoAction,
     nightMessages |-> <<>>,
     isGameRunning |-> FALSE,
     hasConfirmedRole |-> FALSE,
     thinkingPlayerId |-> NULL,
     votingThinkingPlayerIds |-> <<>>,
     votedPlayerIds |-> <<>>,
     nightActionMessage |-> None,
     announcement |-> None,
     teammates |-> Some(<<>>)]

\* The object literal of resetGame: it lists no teammates field.
ResetGameData == [InitialGameData EXCEPT !.teammates = None]

(***************************************************************************)
(* Array helpers of the reducer.                                           *)
(***************************************************************************)
MapSeq(f(_), s) == [i \in 1..Len(s) |-> f(s[i])]
SeqContains(s, x) == \E i \in 1..Len(s) : s[i] = x

\* prev.players.find(p => p.id === id): the first match, if any.
FindPlayer(players, id) ==
    IF \E i \in 1..Len(players) : players[i].id = id
    THEN Some(players[CHOOSE i \in 1..Len(players) :
                  /\ players[i].id = id
                  /\ \A j \in 1..(i - 1) : players[j].id # id])
    ELSE None

\* Mutant: the status is set to dead and isAlive is left as it was.
MarkDead_StatusOnly(players, id) ==
    [i \in 1..Len(players) |->
        IF players[i].id = id
        THEN [players[i] EXCEPT !.status = "dead"]
        ELSE players[i]]
\* prev.players.map(p => p.id === id ? {...p, status: 'dead', isAlive: false} : p)
MarkDead(players, id) ==
    [i \in 1..Len(players) |->
        IF players[i].id = id
        THEN [players[i] EXCEPT !.status = "dead", !.isAlive = FALSE]
        ELSE players[i]]

\* prev.players.filter(p => p.status === 'alive' && p.isAlive).map(p => p.id)
AliveFilter(p) == p.status = "alive" /\ p.isAlive
AliveIds(players) == MapSeq(LAMBDA p : p.id, SelectSeq(players, AliveFilter))

(***************************************************************************)
(* The reducer: the switch of the effect on lastMessage, one operator per  *)
(* case; g is the previous gameData and d the frame's data.                *)
(***************************************************************************)
\* Mutant: every announcement takes the action panel down.
OnAnnouncement_AlwaysClears(g, d) ==
    [g EXCEPT !.announcement = Some(d.content), !.actionRequired = NoAction]
OnAnnouncement(g, d) ==
    IF d.content # <<>> /\ Includes(d.content, CloseEyesMarker)
    THEN [g EXCEPT !.announcement = Some(d.content), !.actionRequired = NoAction]
    ELSE [g EXCEPT !.announcement = Some(d.content)]

\* Mutant: every player of the roster is set thinking, the dead included.
OnResetVote_Everyone(g, d) ==
    [g EXCEPT !.votedPlayerIds = <<>>,
              !.votingThinkingPlayerIds = MapSeq(LAMBDA p : p.id, g.players)]
OnResetVote(g, d) ==
    [g EXCEPT !.votedPlayerIds = <<>>,
              !.votingThinkingPlayerIds = AliveIds(g.players)]

NewPlayer(p) ==
    [id |-> p.id, name |-> p.name, isHuman |-> p.is_human,
     status |-> "alive", isAlive |-> TRUE, role |-> UNDEF, roleName |-> UNDEF]

OnGameCreated(g, d) ==
    [g EXCEPT !.gameId = d.game_id,
              !.players = MapSeq(NewPlayer, d.players),
              !.systemMessages = Append(@, Msg("room_created", "", 0))]

OnRoleAssigned(g, d) ==
    [g EXCEPT !.humanPlayerId = d.player_id,
              !.humanRole = d.role,
              !.humanRoleName = d.role_name,
              !.roleDescription = d.role_description,
              !.isGameRunning = TRUE,
              !.systemMessages = Append(@, Msg("your_role_is", d.role_name, 0)),
              !.teammates = IF d.teammates # None THEN Some(d.teammates[1])
                            ELSE Some(<<>>)]

OnGameStarted(g, d) ==
    [g EXCEPT !.round = d.round,
              !.phase = d.phase,
              !.isGameRunning = TRUE,
              !.systemMessages = Append(@, Msg("game_started", "", 0))]

\* Mutant: every phase change counts a round.
OnPhaseChange_AdvancesRound(g, d) ==
    [g EXCEPT !.phase = d.phase,
              !.round = @ + 1,
              !.isGameRunning = TRUE,
              !.systemMessages = Append(@, Msg(d.message, "", 0)),
              !.actionRequired = NoAction,
              !.currentSpeaker = NULL,
              !.votedPlayerIds = <<>>,
              !.votingThinkingPlayerIds = <<>>]
\* Mutant: the phase change keeps the votes of the phase before.
OnPhaseChange_KeepsVotes(g, d) ==
    [g EXCEPT !.phase = d.phase,
              !.isGameRunning = TRUE,
              !.systemMessages = Append(@, Msg(d.message, "", 0)),
              !.actionRequired = NoAction,
              !.currentSpeaker = NULL,
              !.votingThinkingPlayerIds = <<>>]

OnPhaseChange(g, d) ==
    [g EXCEPT !.phase = d.phase,
              !.isGameRunning = TRUE,
              !.systemMessages = Append(@, Msg(d.message, "", 0)),
              !.actionRequired = NoAction,
              !.currentSpeaker = NULL,
              !.votedPlayerIds = <<>>,
              !.votingThinkingPlayerIds = <<>>]

OnActionRequired(g, d) ==
    [g EXCEPT !.actionRequired =
        [action |-> d.action,
         message |-> d.message,
         validTargets |-> d.valid_targets,
         timeLimit |-> d.time_limit,
         wolfTarget |-> IF d.wolf_target # None /\ d.wolf_target # Some(0)
                        THEN d.wolf_target ELSE None,
         canSave |-> d.can_save,
         hasAntidote |-> d.has_antidote,
         hasPoison |-> d.has_poison,
         validPoisonTargets |-> d.valid_poison_targets,
         teammates |-> d.teammates]]

OnSpeakerTurn(g, d) ==
    [g EXCEPT !.currentSpeaker = d.speaker_id,
              !.systemMessages =
                  Append(@, Msg("starts_speaking", d.speaker_name, d.speaker_id))]

OnThinkingStart(g, d) ==
    IF d.action = "vote" THEN g
    ELSE [g EXCEPT !.thinkingPlayerId = d.player_id]

\* Mutant: the vote is added without the test for an id already there.
OnPlayerVoted_CountsAgain(g, d) ==
    [g EXCEPT !.votingThinkingPlayerIds =
                  SelectSeq(@, LAMBDA id : id # d.player_id),
              !.votedPlayerIds = Append(@, d.player_id)]
\* Mutant: the voter is not taken out of the thinking list.
OnPlayerVoted_StillThinking(g, d) ==
    IF SeqContains(g.votedPlayerIds, d.player_id) THEN g
    ELSE [g EXCEPT !.votedPlayerIds = Append(@, d.player_id)]
OnPlayerVoted(g, d) ==
    IF SeqContains(g.votedPlayerIds, d.player_id) THEN g
    ELSE [g EXCEPT !.votingThinkingPlayerIds =
                       SelectSeq(@, LAMBDA id : id # d.player_id),
                   !.votedPlayerIds = Append(@, d.player_id)]

OnNightActionChange(g, d) ==
    [g EXCEPT !.nightActionMessage = Some(d.message)]

\* Mutant: a speech already recorded is dropped whole, state untouched.
OnPlayerSpeech_DuplicateIgnored(g, d) ==
    IF \E i \in 1..Len(g.speeches) :
           /\ g.speeches[i].playerId = d.speaker_id
           /\ g.speeches[i].content = d.content
    THEN g
    ELSE [g EXCEPT !.thinkingPlayerId = NULL,
                   !.speeches = Append(g.speeches,
                                       [playerId |-> d.speaker_id,
                                        playerName |-> d.speaker_name,
                                        content |-> d.content,
                                        round |-> g.round,
                                        phase |-> g.phase]),
                   !.actionRequired =
                       IF g.actionRequired.action = "speak" THEN NoAction
                       ELSE g.actionRequired]
\* Mutant: the speech is appended without the test for an equal entry.
OnPlayerSpeech_AlwaysAppends(g, d) ==
    [g EXCEPT !.thinkingPlayerId = NULL,
              !.speeches = Append(g.speeches,
                                  [playerId |-> d.speaker_id,
                                   playerName |-> d.speaker_name,
                                   content |-> d.content,
                                   round |-> g.round,
                                   phase |-> g.phase]),
              !.actionRequired =
                  IF g.actionRequired.action = "speak" THEN NoAction
                  ELSE g.actionRequired]
OnPlayerSpeech(g, d) ==
    [g EXCEPT !.thinkingPlayerId = NULL,
              !.speeches =
                  IF \E i \in 1..Len(g.speeches) :
                         /\ g.speeches[i].playerId = d.speaker_id
                         /\ g.speeches[i].content = d.content
                  THEN g.speeches
                  ELSE Append(g.speeches,
                              [playerId |-> d.speaker_id,
                               playerName |-> d.speaker_name,
                               content |-> d.content,
                               round |-> g.round,
                               phase |-> g.phase]),
              !.actionRequired =
                  IF g.actionRequired.action = "speak" THEN NoAction
                  ELSE g.actionRequired]

\* Mutant: the roster entry is built without looking up the role known before.
KnownRole_Forgotten(players, id) == UNDEF
KnownRole(players, id) ==
    IF FindPlayer(players, id) # None THEN FindPlayer(players, id)[1].role ELSE UNDEF

KnownRoleName(players, id) ==
    IF FindPlayer(players, id) # None THEN FindPlayer(players, id)[1].roleName
    ELSE UNDEF

\* Mutant: the night's messages are put in front of the log.
OnNightResult_NewestFirst(g, d) ==
    [g EXCEPT !.nightMessages = d.messages,
              !.systemMessages = MapSeq(LAMBDA m : Msg(m, "", 0), d.messages) \o @,
              !.players =
                  IF d.players # None
                  THEN MapSeq(LAMBDA p :
                                  [id |-> p.id, name |-> p.name,
                                   isHuman |-> p.is_human,
                                   status |-> IF p.is_alive THEN "alive" ELSE "dead",
                                   isAlive |-> p.is_alive,
                                   role |-> KnownRole(g.players, p.id),
                                   roleName |-> KnownRoleName(g.players, p.id)],
                              d.players[1])
                  ELSE g.players]
OnNightResult(g, d) ==
    [g EXCEPT !.nightMessages = d.messages,
              !.systemMessages = @ \o MapSeq(LAMBDA m : Msg(m, "", 0), d.messages),
              !.players =
                  IF d.players # None
                  THEN MapSeq(LAMBDA p :
                                  [id |-> p.id, name |-> p.name,
                                   isHuman |-> p.is_human,
                                   status |-> IF p.is_alive THEN "alive" ELSE "dead",
                                   isAlive |-> p.is_alive,
                                   role |-> KnownRole(g.players, p.id),
                                   roleName |-> KnownRoleName(g.players, p.id)],
                              d.players[1])
                  ELSE g.players]

\* Mutant: a tie moves the phase to night, as its message announces.
OnVoteResult_TieToNight(g, d) ==
    [g EXCEPT !.systemMessages =
                  Append(@, IF d.is_tie THEN Msg("tie_go_to_night", "", 0)
                            ELSE Msg("voted_out", d.executed_name, 0)),
              !.players = MarkDead(g.players, d.executed_id),
              !.phase = IF d.is_tie THEN "night" ELSE @]
OnVoteResult(g, d) ==
    [g EXCEPT !.systemMessages =
                  Append(@, IF d.is_tie THEN Msg("tie_go_to_night", "", 0)
                            ELSE Msg("voted_out", d.executed_name, 0)),
              !.players = MarkDead(g.players, d.executed_id)]

\* The case also dispatches a window event 'seer_result' to the action panel,
\* which is outside the two hooks and keeps no state of them.
OnSeerResult(g, d) ==
    [g EXCEPT !.systemMessages =
                  Append(@, Msg(IF d.is_good THEN "check_result_good"
                                ELSE "check_result_wolf", d.target_name, 0))]

OnHunterShootResult(g, d) ==
    [g EXCEPT !.systemMessages = Append(@, Msg("hunter_took", d.target_name, 0)),
              !.players = MarkDead(g.players, d.target_id)]

\* Mutant: the final roster is built without looking up who was human.
WasHuman_Forgotten(players, id) == FALSE
WasHuman(players, id) ==
    IF FindPlayer(players, id) # None THEN FindPlayer(players, id)[1].isHuman
    ELSE FALSE

OnGameOver(g, d) ==
    [g EXCEPT !.phase = "game_over",
              !.result = d.result,
              !.isGameRunning = TRUE,
              !.players =
                  MapSeq(LAMBDA r :
                             [id |-> r.id, name |-> r.name, role |-> r.role,
                              roleName |-> r.role_name,
                              status |-> IF r.is_alive THEN "alive" ELSE "dead",
                              isAlive |-> r.is_alive,
                              isHuman |-> WasHuman(g.players, r.id)],
                         d.roles),
              !.systemMessages = Append(@, Msg(d.message, "", 0))]

\* Mutant: a default case that takes the action panel down.
Unhandled_ClearsAction(g, m) == [g EXCEPT !.actionRequired = NoAction]
\* The switch has no default: for a type with no case no setGameData runs.
Unhandled(g, m) == g

\* switch (type) { ... }: a type with no case leaves gameData alone.
Apply(g, m) ==
    CASE m.type = "announcement" -> OnAnnouncement(g, m.data)
      [] m.type = "reset_vote" -> OnResetVote(g, m.data)
      [] m.type = "game_created" -> OnGameCreated(g, m.data)
      [] m.type = "role_assigned" -> OnRoleAssigned(g, m.data)
      [] m.type = "game_started" -> OnGameStarted(g, m.data)
      [] m.type = "phase_change" -> OnPhaseChange(g, m.data)
      [] m.type = "action_required" -> OnActionRequired(g, m.data)
      [] m.type = "speaker_turn" -> OnSpeakerTurn(g, m.data)
      [] m.type = "thinking_start" -> OnThinkingStart(g, m.data)
      [] m.type = "player_voted" -> OnPlayerVoted(g, m.data)
      [] m.type = "night_action_change" -> OnNightActionChange(g, m.data)
      [] m.type = "player_speech" -> OnPlayerSpeech(g, m.data)
      [] m.type = "night_result" -> OnNightResult(g, m.data)
      [] m.type = "vote_result" -> OnVoteResult(g, m.data)
      [] m.type = "seer_result" -> OnSeerResult(g, m.data)
      [] m.type = "hunter_shoot_result" -> OnHunterShootResult(g, m.data)
      [] m.type = "game_over" -> OnGameOver(g, m.data)
      [] OTHER -> Unhandled(g, m)

(***************************************************************************)
(* useWebSocket.                                                           *)
(***************************************************************************)
NoFrame == [decodes |-> FALSE, type |-> "none", data |-> [none |-> TRUE]]
Op(name, s, frame, action) ==
    [name |-> name, s |-> s, frame |-> frame, action |-> action]

\* A handle is free for a new object when no live object, reference or timer
\* carries it.  The timer set by the close callback of a session, and the
\* interval started by its open callback, carry the session's handle.
InUse(s) ==
    \/ ws[s] # "CLOSED"
    \/ wsRef = s
    \/ s \in timers \/ reconnectTimeoutRef = s
    \/ s \in intervals \/ pingIntervalRef = s
FreeIds == {s \in Sessions : ~InUse(s)}
Fresh == CHOOSE s \in FreeIds : \A r \in FreeIds : s <= r

\* wsRef.current?.readyState === WebSocket.OPEN
IsOpen == wsRef # NULL /\ ws[wsRef] = "OPEN"

\* connect(): returns at once on an open session; new WebSocket(WS_URL) may
\* throw, which the catch only logs; otherwise the new object replaces
\* wsRef.current, and whatever object was there keeps its callbacks.
\* Mutant: the early return is missing.
ConnectReturnsEarly_Never == FALSE
ConnectReturnsEarly == IsOpen
\* Mutant: connect() also returns when wsRef holds any object, open or not.
ConnectCreates_OnlyFromNull == ~ConnectReturnsEarly /\ wsUrlValid /\ wsRef = NULL
ConnectCreates == ~ConnectReturnsEarly /\ wsUrlValid
ConnectPossible == ConnectCreates => FreeIds # {}
ConnectWs == IF ConnectCreates THEN [ws EXCEPT ![Fresh] = "CONNECTING"] ELSE ws
ConnectRef == IF ConnectCreates THEN Fresh ELSE wsRef

\* sendMessage(type, data)
\* Mutant: the send gate tests the reference, not its readyState.
CanSend_RefOnly == wsRef # NULL
CanSend == IsOpen
Frame(type, data) == [type |-> type, data |-> data]
SendPossible == CanSend => Len(wire) < MaxWire
SendMessage(type, data) ==
    IF CanSend THEN Append(wire, Frame(type, data)) ELSE wire

NoData == [none |-> TRUE]

\* clearQueue(): setMessageQueue([]).  The hook returns it to its caller.
ClearQueue ==
    /\ messageQueue' = <<>>
    /\ op' = Op("clearQueue", 0, NoFrame, "")
    /\ UNCHANGED <<connVars, lastMessage, wire, gameVars, tornDown>>
\* startHeartbeat(): clears the interval the ref holds, then sets a new one.
StartHeartbeatIntervals(s) == (intervals \ {pingIntervalRef}) \cup {s}
\* stopHeartbeat(): clears the interval the ref holds and nulls the ref.
StopHeartbeatIntervals == intervals \ {pingIntervalRef}

\* Mutant: the catch of connect() sets a timer to try again.
CatchTimers_Retries(ts) ==
    IF ~ConnectReturnsEarly /\ ~wsUrlValid THEN ts \cup {Fresh} ELSE ts
\* catch (error) { console.error(...) }: the catch of connect() sets no timer.
CatchTimers(ts) == ts

\* The connect button of the lobby, or any other caller of connect().
Connect ==
    /\ ConnectPossible
    /\ ws' = ConnectWs
    /\ wsRef' = ConnectRef
    /\ timers' = CatchTimers(timers)
    /\ tornDown' = FALSE
    /\ op' = Op("connect", 0, NoFrame, "")
    /\ UNCHANGED <<wsUrlValid, isConnected, reconnectTimeoutRef,
                   pingIntervalRef, intervals, lastMessage, messageQueue, wire,
                   gameData, effectDep, applied>>

\* The reconnect timer set by a close callback fires and calls connect().
ReconnectTimer(t) ==
    /\ t \in timers
    /\ ConnectPossible
    /\ timers' = CatchTimers(timers \ {t})
    /\ ws' = ConnectWs
    /\ wsRef' = ConnectRef
    /\ op' = Op("reconnect", t, NoFrame, "")
    /\ UNCHANGED <<wsUrlValid, isConnected, reconnectTimeoutRef,
                   pingIntervalRef, intervals, lastMessage, messageQueue, wire,
                   gameData, effectDep, applied, tornDown>>

\* ws.onopen
OnOpen(s) ==
    /\ ws[s] = "CONNECTING"
    /\ ws' = [ws EXCEPT ![s] = "OPEN"]
    /\ isConnected' = TRUE
    /\ intervals' = StartHeartbeatIntervals(s)
    /\ pingIntervalRef' = s
    /\ op' = Op("onopen", s, NoFrame, "")
    /\ UNCHANGED <<wsUrlValid, wsRef, reconnectTimeoutRef, timers, lastMessage,
                   messageQueue, wire, gameData, effectDep, applied, tornDown>>

\* ws.onmessage: JSON.parse throws on a malformed frame (caught and logged);
\* a pong returns; any other frame becomes lastMessage and the queue's tail.
\* Mutant: the pong test is missing.
Forwarded_PongToo(raw) == raw.decodes
\* Mutant: the frame is used without the try around JSON.parse.
Forwarded_NoCatch(raw) == raw.type # "pong"
Forwarded(raw) == raw.decodes /\ raw.type # "pong"
Decoded(raw) == [id |-> lastMessage.id + 1, type |-> raw.type, data |-> raw.data]
OnMessageLast(raw) == IF Forwarded(raw) THEN Decoded(raw) ELSE lastMessage
OnMessageQueue(raw) ==
    IF Forwarded(raw) THEN Append(messageQueue, Decoded(raw)) ELSE messageQueue

OnMessage(s, raw) ==
    /\ ws[s] = "OPEN"
    /\ lastMessage' = OnMessageLast(raw)
    /\ messageQueue' = OnMessageQueue(raw)
    /\ op' = Op("onmessage", s, raw, "")
    /\ UNCHANGED <<connVars, wire, gameData, effectDep, applied, tornDown>>

\* ws.onclose: the transport is gone (closed by the server, by the network,
\* by a failed handshake or after close() was called on the object).
\* Mutant: the close callback sets no timer.
OnCloseTimers_None(s) == timers
OnCloseTimers(s) == timers \cup {s}
OnCloseTimerRef(s) == s

OnClose(s) ==
    /\ ws[s] \in {"CONNECTING", "OPEN", "CLOSING"}
    /\ ws' = [ws EXCEPT ![s] = "CLOSED"]
    /\ isConnected' = FALSE
    /\ intervals' = StopHeartbeatIntervals
    /\ pingIntervalRef' = NULL
    /\ timers' = OnCloseTimers(s)
    /\ reconnectTimeoutRef' = OnCloseTimerRef(s)
    /\ op' = Op("onclose", s, NoFrame, ws[s])
    /\ UNCHANGED <<wsUrlValid, wsRef, lastMessage, messageQueue, wire,
                   gameData, effectDep, applied, tornDown>>

\* ws.onerror: logs.
OnError(s) ==
    /\ ws[s] \in {"CONNECTING", "OPEN", "CLOSING"}
    /\ op' = Op("onerror", s, NoFrame, "")
    /\ UNCHANGED <<connVars, msgVars, wire, gameVars, tornDown>>

\* The heartbeat interval fires: sendMessage('ping').
Heartbeat(i) ==
    /\ i \in intervals
    /\ SendPossible
    /\ wire' = SendMessage("ping", NoData)
    /\ op' = Op("heartbeat", i, NoFrame, "")
    /\ UNCHANGED <<connVars, msgVars, gameVars, tornDown>>

\* disconnect(): clearTimeout of the handle the ref holds (the ref keeps it),
\* stopHeartbeat(), close() of the object wsRef holds, wsRef.current = null.
DisconnectTimers == timers \ {reconnectTimeoutRef}
CloseCall(s) ==
    IF s # NULL /\ ws[s] \in {"CONNECTING", "OPEN"}
    THEN [ws EXCEPT ![s] = "CLOSING"] ELSE ws

Disconnect ==
    /\ timers' = DisconnectTimers
    /\ intervals' = StopHeartbeatIntervals
    /\ pingIntervalRef' = NULL
    /\ ws' = CloseCall(wsRef)
    /\ wsRef' = NULL
    /\ isConnected' = FALSE
    /\ tornDown' = TRUE
    /\ op' = Op("disconnect", 0, NoFrame, "")
    /\ UNCHANGED <<wsUrlValid, reconnectTimeoutRef, lastMessage, messageQueue,
                   wire, gameData, effectDep, applied>>

(***************************************************************************)
(* useGame.                                                                *)
(***************************************************************************)
\* useEffect(..., [lastMessage]): runs after a render in which lastMessage is
\* another object than in the render before; it sees only that object.
EffectApplies == lastMessage.id # 0 /\ lastMessage.id # effectDep

Effect ==
    /\ EffectApplies
    /\ gameData' = Apply(gameData, lastMessage)
    /\ effectDep' = lastMessage.id
    /\ applied' = Append(applied, lastMessage.id)
    /\ op' = Op("effect", 0, NoFrame, lastMessage.type)
    /\ UNCHANGED <<connVars, msgVars, wire, tornDown>>

CreateGame(playerName) ==
    /\ SendPossible
    /\ wire' = SendMessage("create_game", [player_name |-> playerName])
    /\ op' = Op("createGame", 0, NoFrame, playerName)
    /\ UNCHANGED <<connVars, msgVars, gameVars, tornDown>>

StartGame ==
    /\ SendPossible
    /\ wire' = SendMessage("start_game", NoData)
    /\ op' = Op("startGame", 0, NoFrame, "")
    /\ UNCHANGED <<connVars, msgVars, gameVars, tornDown>>

\* Mutant: the role is confirmed locally and nothing is handed to sendMessage.
ConfirmRole_NoSend ==
    /\ gameData' = [gameData EXCEPT !.hasConfirmedRole = TRUE]
    /\ op' = Op("confirmRole", 0, NoFrame, "")
    /\ UNCHANGED <<connVars, msgVars, wire, effectDep, applied, tornDown>>
ConfirmRole ==
    /\ SendPossible
    /\ gameData' = [gameData EXCEPT !.hasConfirmedRole = TRUE]
    /\ wire' = SendMessage("action", [action |-> "role_confirmed", data |-> NoData])
    /\ op' = Op("confirmRole", 0, NoFrame, "")
    /\ UNCHANGED <<connVars, msgVars, effectDep, applied, tornDown>>

\* Mutant: the requirement is cleared only if the command could be sent.
PerformActionGame_OnlyIfSent(action) ==
    IF action # "seer_check" /\ CanSend
    THEN [gameData EXCEPT !.actionRequired = NoAction]
    ELSE gameData
\* Mutant: the requirement is cleared for seer_check as well.
PerformActionGame_ClearsAlways(action) == [gameData EXCEPT !.actionRequired = NoAction]
PerformActionGame(action) ==
    IF action # "seer_check" THEN [gameData EXCEPT !.actionRequired = NoAction]
    ELSE gameData

PerformAction(action, data) ==
    /\ SendPossible
    /\ wire' = SendMessage("action", [action |-> action, data |-> data])
    /\ gameData' = PerformActionGame(action)
    /\ op' = Op("performAction", 0, NoFrame, action)
    /\ UNCHANGED <<connVars, msgVars, effectDep, applied, tornDown>>

ClearAnnouncement ==
    /\ gameData' = [gameData EXCEPT !.announcement = None]
    /\ op' = Op("clearAnnouncement", 0, NoFrame, "")
    /\ UNCHANGED <<connVars, msgVars, wire, effectDep, applied, tornDown>>

ResetGame ==
    /\ gameData' = ResetGameData
    /\ op' = Op("resetGame", 0, NoFrame, "")
    /\ UNCHANGED <<connVars, msgVars, wire, effectDep, applied, tornDown>>

(***************************************************************************)
(* The state after the two hooks are constructed.                          *)
(***************************************************************************)
Init ==
    /\ wsUrlValid \in BOOLEAN
    /\ ws = [s \in Sessions |-> "CLOSED"]
    /\ wsRef = NULL
    /\ isConnected = FALSE
    /\ reconnectTimeoutRef = NULL
    /\ timers = {}
    /\ pingIntervalRef = NULL
    /\ intervals = {}
    /\ lastMessage = NullMessage
    /\ messageQueue = <<>>
    /\ wire = <<>>
    /\ gameData = InitialGameData
    /\ effectDep = 0
    /\ applied = <<>>
    /\ tornDown = FALSE
    /\ op = Op("init", 0, NoFrame, "")

(***************************************************************************)
(* Inbound frames and command inputs the specifications draw from.         *)
(***************************************************************************)
Malformed == [decodes |-> FALSE, type |-> "malformed", data |-> NoData]
Raw(type, data) == [decodes |-> TRUE, type |-> type, data |-> data]
Pong == Raw("pong", NoData)

PhaseChange(phase) == Raw("phase_change", [phase |-> phase, message |-> phase])
ActionRequiredFrame(action, targets) ==
    Raw("action_required",
        [action |-> action, message |-> action, valid_targets |-> targets,
         time_limit |-> None, wolf_target |-> None, can_save |-> None,
         has_antidote |-> None, has_poison |-> None,
         valid_poison_targets |-> None, teammates |-> None])

\* One frame for each way through onmessage.
ConnFrames ==
    {Malformed, Pong, PhaseChange("day_vote"),
     ActionRequiredFrame("vote", Some(<<1, 2>>))}

\* No more than MaxFrames frames are forwarded in one run.
FrameAllowed(raw) == Forwarded(raw) => lastMessage.id < MaxFrames

Receive ==
    \E s \in Sessions, raw \in ConnFrames : FrameAllowed(raw) /\ OnMessage(s, raw)
Open == \E s \in Sessions : OnOpen(s)
Close == \E s \in Sessions : OnClose(s)
Error == \E s \in Sessions : OnError(s)
Reconnect == \E t \in Sessions : ReconnectTimer(t)
Ping == \E i \in Sessions : Heartbeat(i)
Vote == PerformAction("vote", [target_id |-> 1])
SeerCheck == PerformAction("seer_check", [target_id |-> 1])
Create == CreateGame("Ann")

(***************************************************************************)
(* Spec: the connection lifecycle of useWebSocket, connect() and           *)
(* disconnect() called at any time.                                        *)
(***************************************************************************)
Next ==
    \/ Connect
    \/ Reconnect
    \/ Open
    \/ Close
    \/ Error
    \/ Ping
    \/ Disconnect

Spec == Init /\ [][Next]_vars

\* In the other specifications the user calls connect() only while at most
\* one handle is in use: two reconnect loops can then run side by side, and
\* the bound on handles never holds back a reconnect timer.
UserConnect == (ConnectCreates => Cardinality(Sessions \ FreeIds) <= 1) /\ Connect

(***************************************************************************)
(* SpecInbound: inbound frames, from the transport to the reducer.         *)
(***************************************************************************)
NextInbound ==
    \/ UserConnect
    \/ Reconnect
    \/ Open
    \/ Close
    \/ Receive
    \/ Effect

SpecInbound == Init /\ [][NextInbound]_vars

(***************************************************************************)
(* SpecCommands: the command senders over a connection that comes and goes.*)
(***************************************************************************)
NextCommands ==
    \/ UserConnect
    \/ Reconnect
    \/ Open
    \/ Close
    \/ Disconnect
    \/ Ping
    \/ Create
    \/ StartGame
    \/ ConfirmRole
    \/ Vote
    \/ SeerCheck

SpecCommands == Init /\ [][NextCommands]_vars

(***************************************************************************)
(* SpecLive: the reconnect loop with its timers.  setTimeout fires every   *)
(* timer that is not cleared: weak fairness of each timer.                 *)
(***************************************************************************)
NextLive ==
    \/ UserConnect
    \/ Reconnect
    \/ Open
    \/ Close
    \/ Disconnect

TimersFire == \A t \in Sessions : WF_vars(ReconnectTimer(t))

SpecLive == Init /\ [][NextLive]_vars /\ TimersFire

(***************************************************************************)
(* SpecRecover: the reconnect loop when disconnect() is never called.  A   *)
(* handshake ends: a connecting session opens or fails (weak fairness of   *)
(* its two callbacks together).                                            *)
(***************************************************************************)
NextRecover ==
    \/ UserConnect
    \/ Reconnect
    \/ Open
    \/ Close

HandshakeEnds(s) == ws[s] = "CONNECTING" /\ (OnOpen(s) \/ OnClose(s))
HandshakesEnd == \A s \in Sessions : WF_vars(HandshakeEnds(s))

SpecRecover == Init /\ [][NextRecover]_vars /\ TimersFire /\ HandshakesEnd

(***************************************************************************)
(* SpecPhase: the reducer over the frames that fill and clear the state of *)
(* a phase.  The session is opened once; every frame of PhaseFrames comes  *)
(* at most once, in any order, and the effect runs at any time.            *)
(***************************************************************************)
Roster ==
    <<[id |-> 1, name |-> "Ann", is_human |-> TRUE],
      [id |-> 2, name |-> "Bot", is_human |-> FALSE]>>

PhaseFrames ==
    {Raw("game_created", [game_id |-> "g1", players |-> Roster]),
     Raw("reset_vote", NoData),
     Raw("player_voted", [player_id |-> 1]),
     ActionRequiredFrame("vote", Some(<<1, 2>>)),
     Raw("speaker_turn", [speaker_id |-> 2, speaker_name |-> "Bot"]),
     PhaseChange("day_vote")}

NotYetReceived(raw) ==
    \A i \in 1..Len(messageQueue) :
        messageQueue[i].type # raw.type \/ messageQueue[i].data # raw.data

FirstConnect == wsRef = NULL /\ Connect

ReceivePhase ==
    \E s \in Sessions, raw \in PhaseFrames :
        /\ lastMessage.id < MaxGameFrames
        /\ NotYetReceived(raw)
        /\ OnMessage(s, raw)

NextPhase ==
    \/ FirstConnect
    \/ Open
    \/ ReceivePhase
    \/ Effect

SpecPhase == Init /\ [][NextPhase]_vars

(***************************************************************************)
(* The reducer specifications below open the session once and then take    *)
(* every frame of their set at most once, in any order; the effect runs at *)
(* any time, and the local reset can be called at any time.                *)
(***************************************************************************)
ReceiveOnce(frames) ==
    \E s \in Sessions, raw \in frames :
        /\ lastMessage.id < MaxGameFrames
        /\ NotYetReceived(raw)
        /\ OnMessage(s, raw)

(***************************************************************************)
(* SpecSpeech: speeches of two players, one of them sent twice with the    *)
(* same content under another display name, across a change of phase.     *)
(***************************************************************************)
Speech(id, name, content) ==
    Raw("player_speech",
        [speaker_id |-> id, speaker_name |-> name, content |-> content])
GameStarted(round, phase) == Raw("game_started", [round |-> round, phase |-> phase])

SpeechFrames ==
    {Speech(1, "Ann", "a"),
     Speech(1, "Anna", "a"),
     Speech(2, "Bot", "a"),
     Speech(1, "Ann", "b"),
     GameStarted(1, "day_speech"),
     ActionRequiredFrame("speak", None)}

ReceiveSpeech == ReceiveOnce(SpeechFrames)

NextSpeech ==
    \/ FirstConnect
    \/ Open
    \/ ReceiveSpeech
    \/ Effect
    \/ ResetGame

SpecSpeech == Init /\ [][NextSpeech]_vars

(***************************************************************************)
(* SpecVotes: one round of voting on a roster of two, with the result that *)
(* executes a voter, and the phase change after it.                        *)
(***************************************************************************)
GameCreated == Raw("game_created", [game_id |-> "g1", players |-> Roster])
PlayerVoted(id) == Raw("player_voted", [player_id |-> id])
VoteResult(id, name, tie) ==
    Raw("vote_result", [executed_id |-> id, executed_name |-> name, is_tie |-> tie])

VoteFrames ==
    {GameCreated,
     Raw("reset_vote", NoData),
     PlayerVoted(1),
     VoteResult(1, "Ann", FALSE),
     PhaseChange("night")}

ReceiveVotes == ReceiveOnce(VoteFrames)

NextVotes ==
    \/ FirstConnect
    \/ Open
    \/ ReceiveVotes
    \/ Effect
    \/ Vote
    \/ ResetGame

SpecVotes == Init /\ [][NextVotes]_vars

(***************************************************************************)
(* SpecRoster: the events that carry or change the roster: the creation,   *)
(* the end of the game (which reveals the roles), night results with a     *)
(* full roster, with a roster of one player only and without a roster, and *)
(* the hunter's shot.                                                      *)
(***************************************************************************)
Entry(id, name, human, alive) ==
    [id |-> id, name |-> name, is_human |-> human, is_alive |-> alive]
NightResult(players) ==
    Raw("night_result", [messages |-> <<"night_news">>, players |-> players])
Role(id, name, role, roleName, alive) ==
    [id |-> id, name |-> name, role |-> role, role_name |-> roleName,
     is_alive |-> alive]
GameOver(result, roles) ==
    Raw("game_over", [result |-> result, roles |-> roles, message |-> result])
AllRoles ==
    <<Role(1, "Ann", "seer", "seer_name", TRUE),
      Role(2, "Bot", "werewolf", "wolf_name", FALSE)>>
HunterShootResult(id, name) ==
    Raw("hunter_shoot_result", [target_id |-> id, target_name |-> name])

RosterFrames ==
    {GameCreated,
     GameOver("villagers_win", AllRoles),
     NightResult(Some(<<Entry(1, "Ann", TRUE, TRUE), Entry(2, "Bot", FALSE, FALSE)>>)),
     NightResult(Some(<<Entry(1, "Ann", TRUE, TRUE)>>)),
     NightResult(None),
     HunterShootResult(2, "Bot")}

ReceiveRoster == ReceiveOnce(RosterFrames)

NextRoster ==
    \/ FirstConnect
    \/ Open
    \/ ReceiveRoster
    \/ Effect

SpecRoster == Init /\ [][NextRoster]_vars

(***************************************************************************)
(* SpecKinds: the reducer over every kind of event.  The session is opened *)
(* once; up to MaxFrames frames of AllFrames (one of each kind the effect  *)
(* has a case for, and one it has no case for) arrive, in any order and    *)
(* any number of times; the effect, performAction, clearAnnouncement and   *)
(* the local reset run at any time.                                        *)
(***************************************************************************)
Announcement(content) == Raw("announcement", [content |-> content])
RoleAssigned ==
    Raw("role_assigned",
        [player_id |-> 1, role |-> "seer", role_name |-> "seer_name",
         role_description |-> "seer_text", teammates |-> None])
ThinkingStart(action, id) == Raw("thinking_start", [action |-> action, player_id |-> id])

\* A night_result with the given messages and no roster.
NightReport(messages) ==
    Raw("night_result", [messages |-> messages, players |-> None])

AllFrames ==
    {Announcement(<<"wolves", CloseEyesMarker>>),
     Raw("reset_vote", NoData),
     GameCreated,
     RoleAssigned,
     GameStarted(1, "night"),
     PhaseChange("day_vote"),
     ActionRequiredFrame("vote", Some(<<1, 2>>)),
     Raw("speaker_turn", [speaker_id |-> 2, speaker_name |-> "Bot"]),
     ThinkingStart("vote", 2),
     PlayerVoted(1),
     Raw("night_action_change", [message |-> "wolves_act"]),
     Speech(1, "Ann", "a"),
     NightReport(<<"ann_died", "bot_saved">>),
     VoteResult(1, "Ann", TRUE),
     Raw("seer_result", [target_name |-> "Bot", is_good |-> FALSE]),
     HunterShootResult(2, "Bot"),
     GameOver("wolves_win", AllRoles),
     Raw("chat", NoData)}

ReceiveAny ==
    \E s \in Sessions, raw \in AllFrames :
        /\ lastMessage.id < MaxFrames
        /\ OnMessage(s, raw)

NextKinds ==
    \/ FirstConnect
    \/ Open
    \/ ReceiveAny
    \/ Effect
    \/ Vote
    \/ ClearAnnouncement
    \/ ResetGame

SpecKinds == Init /\ [][NextKinds]_vars

(***************************************************************************)
(* SpecAct: performAction against the requirements the server sets.  Up to *)
(* MaxFrames frames of ActFrames arrive on a session that can close and be *)
(* reopened by its timer; the player votes or checks at any time.          *)
(***************************************************************************)
ActFrames ==
    {ActionRequiredFrame("vote", Some(<<1, 2>>)),
     ActionRequiredFrame("seer_check", Some(<<2>>)),
     Raw("seer_result", [target_name |-> "Bot", is_good |-> FALSE]),
     PhaseChange("night")}

ReceiveAct ==
    \E s \in Sessions, raw \in ActFrames :
        /\ lastMessage.id < MaxFrames
        /\ OnMessage(s, raw)

NextAct ==
    \/ FirstConnect
    \/ Open
    \/ Close
    \/ Reconnect
    \/ ReceiveAct
    \/ Effect
    \/ Vote
    \/ SeerCheck

SpecAct == Init /\ [][NextAct]_vars

(***************************************************************************)
(* SpecQueue: the event queue of useWebSocket under every operation the    *)
(* hook has on it: the frames of a session append to it, and clearQueue,   *)
(* which the hook returns to its caller, can be called at any time.        *)
(***************************************************************************)
NextQueue ==
    \/ FirstConnect
    \/ Open
    \/ Close
    \/ Reconnect
    \/ Receive
    \/ Effect
    \/ ClearQueue

SpecQueue == Init /\ [][NextQueue]_vars

(***************************************************************************)
(* SpecBallot: the frames of one ballot.  Up to MaxGameFrames frames of    *)
(* BallotFrames arrive in any order, each any number of times, so a vote   *)
(* can be repeated; only the effect changes gameData.                      *)
(***************************************************************************)
BallotFrames ==
    {GameCreated, Raw("reset_vote", NoData), PlayerVoted(1), PlayerVoted(2)}

ReceiveBallot ==
    \E s \in Sessions, raw \in BallotFrames :
        /\ lastMessage.id < MaxGameFrames
        /\ OnMessage(s, raw)

NextBallot ==
    \/ FirstConnect
    \/ Open
    \/ ReceiveBallot
    \/ Effect

SpecBallot == Init /\ [][NextBallot]_vars

(***************************************************************************)
(* SpecAnnounce: announcements with and without the marker, and one with   *)
(* an empty text, around a running game with a requirement and a vote.     *)
(* Each frame of AnnounceFrames arrives at most once, in any order.        *)
(***************************************************************************)
AnnounceFrames ==
    {GameStarted(1, "night"),
     ActionRequiredFrame("vote", Some(<<1, 2>>)),
     PlayerVoted(1),
     Announcement(<<"wolves", CloseEyesMarker>>),
     Announcement(<<"day", "breaks">>),
     Announcement(<<>>)}

ReceiveAnnounce == ReceiveOnce(AnnounceFrames)

NextAnnounce ==
    \/ FirstConnect
    \/ Open
    \/ ReceiveAnnounce
    \/ Effect
    \/ ClearAnnouncement

SpecAnnounce == Init /\ [][NextAnnounce]_vars

(***************************************************************************)
(* SpecTalk: a speech and its repetition under another display name, with  *)
(* a player thinking and a requirement to speak or to vote.  Each frame of *)
(* TalkFrames arrives at most once, in any order.                          *)
(***************************************************************************)
TalkFrames ==
    {Speech(1, "Ann", "a"),
     Speech(1, "Anna", "a"),
     ThinkingStart("speak", 2),
     ActionRequiredFrame("speak", None),
     ActionRequiredFrame("vote", Some(<<1, 2>>))}

ReceiveTalk == ReceiveOnce(TalkFrames)

NextTalk ==
    \/ FirstConnect
    \/ Open
    \/ ReceiveTalk
    \/ Effect

SpecTalk == Init /\ [][NextTalk]_vars

(***************************************************************************)
(* SpecSolo: the connection lifecycle in the runs where connect() is only  *)
(* ever called, by the user or by a reconnect timer, while no session is   *)
(* connecting or open; disconnect() is called at any time.                 *)
(***************************************************************************)
\* The sessions that are connecting or open.
LiveSessions == {s \in Sessions : ws[s] \in {"CONNECTING", "OPEN"}}

SoloConnect == LiveSessions = {} /\ Connect
SoloReconnect == LiveSessions = {} /\ Reconnect

NextSolo ==
    \/ SoloConnect
    \/ SoloReconnect
    \/ Open
    \/ Close
    \/ Ping
    \/ Disconnect

SpecSolo == Init /\ [][NextSolo]_vars

(***************************************************************************)
(* SpecFate: the five events that set a player's liveness, on a roster of  *)
(* two.  Each frame of FateFrames arrives at most once, in any order.      *)
(***************************************************************************)
FateFrames ==
    {GameCreated,
     NightResult(Some(<<Entry(1, "Ann", TRUE, TRUE), Entry(2, "Bot", FALSE, FALSE)>>)),
     VoteResult(1, "Ann", FALSE),
     HunterShootResult(2, "Bot"),
     GameOver("wolves_win", AllRoles)}

ReceiveFate == ReceiveOnce(FateFrames)

NextFate ==
    \/ FirstConnect
    \/ Open
    \/ ReceiveFate
    \/ Effect

SpecFate == Init /\ [][NextFate]_vars

(***************************************************************************)
(* SpecRound: a game started in round 2 and two phase changes, with a      *)
(* thinking player, an announcement and a speech around them.  Each frame  *)
(* of RoundFrames arrives at most once, in any order.                      *)
(***************************************************************************)
RoundFrames ==
    {GameStarted(2, "night"),
     PhaseChange("day_speech"),
     PhaseChange("day_vote"),
     ThinkingStart("speak", 2),
     Announcement(<<"day", "breaks">>),
     Speech(1, "Ann", "a")}

ReceiveRound == ReceiveOnce(RoundFrames)

NextRound ==
    \/ FirstConnect
    \/ Open
    \/ ReceiveRound
    \/ Effect

SpecRound == Init /\ [][NextRound]_vars

(***************************************************************************)
(* Properties.                                                             *)
(***************************************************************************)

\* C1: every forwarded frame is applied to the game state exactly once and in
\* arrival order: the frames applied so far are the first, the second, ... of
\* the forwarded frames, none skipped, repeated or out of order.
C1_AppliedOnceInArrivalOrder ==
    \A i \in 1..Len(applied) : applied[i] = i

\* C2: after disconnect(), and until connect() is called again, no reconnect
\* timer fires and calls connect().
C2_NoReconnectAfterDisconnect ==
    [][tornDown => op'.name # "reconnect"]_vars

SendOps == {"createGame", "startGame", "confirmRole", "performAction", "heartbeat"}
FrameTypeOf(name) ==
    CASE name = "createGame" -> "create_game"
      [] name = "startGame" -> "start_game"
      [] name = "heartbeat" -> "ping"
      [] OTHER -> "action"

\* C5: a frame is transmitted only by a send made while the held session is
\* open, and it is the frame of that very call; a send made while it is not
\* open transmits nothing, then or later, and leaves the connection alone.
C5_SendOnlyWhenOpen ==
    [][/\ wire' # wire =>
            /\ IsOpen
            /\ op'.name \in SendOps
            /\ Len(wire') = Len(wire) + 1
            /\ SubSeq(wire', 1, Len(wire)) = wire
            /\ wire'[Len(wire')].type = FrameTypeOf(op'.name)
       /\ (op'.name \in SendOps /\ ~IsOpen) =>
            /\ wire' = wire
            /\ UNCHANGED connVars]_vars

\* A command was called while no open session was held, and dropped.
C5_Witness ==
    /\ op.name = "performAction"
    /\ ~IsOpen
    /\ wire = <<>>
    /\ \E s \in Sessions : ws[s] = "CONNECTING"

\* C6: connect() called while the held session is open opens no session and
\* changes neither the flag, the heartbeat timer nor the session held.
C6_ConnectIdempotent ==
    [][(op'.name = "connect" /\ IsOpen) =>
           UNCHANGED <<ws, wsRef, isConnected, pingIntervalRef, intervals,
                       reconnectTimeoutRef, timers>>]_vars

\* connect() has just returned early on an open session.
C6_Witness ==
    /\ op.name = "connect"
    /\ IsOpen
    /\ isConnected
    /\ pingIntervalRef = wsRef

\* C7: right after disconnect() the flag is false, no heartbeat runs, no
\* session is held and no reconnect timer is pending.
C7_DisconnectLeavesNothing ==
    op.name = "disconnect" =>
        /\ isConnected = FALSE
        /\ pingIntervalRef = NULL /\ intervals = {}
        /\ wsRef = NULL
        /\ timers = {}

\* C8: a pong changes neither lastMessage, the queue nor the game state; any
\* other decoded frame becomes lastMessage and the new tail of the queue, so
\* the queue holds the forwarded frames in arrival order.
C8_PongConsumedOthersForwarded ==
    /\ [][op'.name = "onmessage" /\ op'.frame.decodes =>
            IF op'.frame.type = "pong"
            THEN UNCHANGED <<lastMessage, messageQueue, gameData>>
            ELSE /\ lastMessage'.type = op'.frame.type
                 /\ lastMessage'.data = op'.frame.data
                 /\ lastMessage'.id = Len(messageQueue) + 1
                 /\ messageQueue' = Append(messageQueue, lastMessage')]_vars
    /\ [](\A i \in 1..Len(messageQueue) : messageQueue[i].id = i)

\* A pong arrived after a frame had been forwarded.
C8_Witness ==
    /\ op.name = "onmessage"
    /\ op.frame = Pong
    /\ Len(messageQueue) = 1
    /\ lastMessage = messageQueue[1]

\* C9: a frame that fails to decode changes nothing of the connection, the
\* latest event, the queue or the game state, and the session it came on
\* still takes frames.
C9_MalformedDropped ==
    /\ [][op'.name = "onmessage" /\ ~op'.frame.decodes =>
            UNCHANGED <<connVars, lastMessage, messageQueue, gameData, effectDep>>]_vars
    /\ [](op.name = "onmessage" /\ ~op.frame.decodes /\ lastMessage.id < MaxFrames
            => ENABLED OnMessage(op.s, PhaseChange("day_vote")))

\* A malformed frame arrived on an open session after a forwarded frame.
C9_Witness ==
    /\ op.name = "onmessage"
    /\ ~op.frame.decodes
    /\ Len(messageQueue) = 1
    /\ isConnected

\* C3: when the transport of a session closes, the flag becomes false, the
\* heartbeat stops and a reconnect timer is set; unless disconnect() is
\* called, that timer fires and calls connect().
C3_CloseThenReconnect ==
    /\ [][op'.name = "onclose" =>
            /\ isConnected' = FALSE
            /\ pingIntervalRef' = NULL /\ intervals' = {}
            /\ op'.s \in timers' /\ reconnectTimeoutRef' = op'.s]_vars
    /\ \A t \in Sessions :
          (op.name = "onclose" /\ op.s = t) ~>
              ((op.name = "reconnect" /\ op.s = t) \/ op.name = "disconnect")

\* The timer set by the close of a session has fired and connect() has made
\* a new session, with no disconnect() in between.
C3_Witness ==
    /\ op.name = "reconnect"
    /\ reconnectTimeoutRef = op.s
    /\ ws[op.s] = "CLOSED"
    /\ ~tornDown
    /\ wsRef # NULL /\ wsRef # op.s /\ ws[wsRef] = "CONNECTING"
    /\ ~isConnected

\* C4: without disconnect(), every pending reconnect timer leads to another
\* connect attempt, however many sessions failed or closed before; and if
\* from some time on the endpoint accepts sessions (no session fails or is
\* closed any more), then once a session was created the manager holds an
\* open session in the end; the open callback of the held session sets the
\* connection flag.
EndpointAccepts == <>[](op.name # "onclose")
C10_PhaseChangeResets ==
    (op.name = "effect" /\ op.action = "phase_change") =>
        /\ gameData.actionRequired = NoAction
        /\ gameData.currentSpeaker = NULL
        /\ gameData.votedPlayerIds = <<>>
        /\ gameData.votingThinkingPlayerIds = <<>>
        /\ gameData.phase = lastMessage.data.phase

\* A phase_change was applied as the sixth frame, after the five frames that
\* made a requirement, a speaker, a vote and a thinking player, all applied.
C10_Witness ==
    /\ op.name = "effect" /\ op.action = "phase_change"
    /\ applied = <<1, 2, 3, 4, 5, 6>>
    /\ messageQueue[1].type = "game_created"
    /\ messageQueue[2].type = "reset_vote"
    /\ messageQueue[3].type = "player_voted"
    /\ {messageQueue[4].type, messageQueue[5].type} = {"action_required", "speaker_turn"}
    /\ gameData.phase = "day_vote"
    /\ Len(gameData.players) = 2

\* C11: speeches never holds two entries with the same (playerId, content):
\* a player_speech whose pair is already there leaves speeches unchanged, any
\* other appends exactly one entry, with that pair, at the end.
SpeechPairs(speeches) ==
    {<<speeches[i].playerId, speeches[i].content>> : i \in 1..Len(speeches)}
C11_NoDuplicateSpeech ==
    /\ [](Cardinality(SpeechPairs(gameData.speeches)) = Len(gameData.speeches))
    /\ [][(op'.name = "effect" /\ op'.action = "player_speech") =>
            IF <<lastMessage.data.speaker_id, lastMessage.data.content>>
                   \in SpeechPairs(gameData.speeches)
            THEN gameData'.speeches = gameData.speeches
            ELSE /\ Len(gameData'.speeches) = Len(gameData.speeches) + 1
                 /\ SubSeq(gameData'.speeches, 1, Len(gameData.speeches))
                        = gameData.speeches
                 /\ gameData'.speeches[Len(gameData'.speeches)].playerId
                        = lastMessage.data.speaker_id
                 /\ gameData'.speeches[Len(gameData'.speeches)].content
                        = lastMessage.data.content]_vars

\* Three speeches were applied, the third repeating the pair of the first
\* under another name: two entries are kept.
C11_Witness ==
    /\ op.name = "effect" /\ op.action = "player_speech"
    /\ applied = <<1, 2, 3>>
    /\ \A i \in 1..3 : messageQueue[i].type = "player_speech"
    /\ messageQueue[3].data.speaker_id = messageQueue[1].data.speaker_id
    /\ messageQueue[3].data.content = messageQueue[1].data.content
    /\ Len(gameData.speeches) = 2

\* C12: no player id is in votedPlayerIds and in votingThinkingPlayerIds at
\* the same time, whatever events, commands and resets came before.
C12_VotedNotThinking ==
    \A i \in 1..Len(gameData.votedPlayerIds) :
        ~SeqContains(gameData.votingThinkingPlayerIds, gameData.votedPlayerIds[i])

\* A vote was applied while both players were thinking: the voter left the
\* thinking list, the other stays in it.
C12_Witness ==
    /\ op.name = "effect" /\ op.action = "player_voted"
    /\ gameData.votedPlayerIds = <<1>>
    /\ gameData.votingThinkingPlayerIds = <<2>>

\* The frames applied so far are the first, second, ... received: none was
\* skipped.
AppliedAll == applied = [i \in 1..Len(applied) |-> i]

\* C13: every id in votedPlayerIds is the id of a player of players who is
\* alive.  Stated for the states of a game in progress (a roster is there)
\* that were reached by applying every frame received.
AliveIdSet(players) ==
    {players[j].id : j \in {k \in 1..Len(players) : players[k].isAlive}}
C13_VotedAreAlive ==
    (AppliedAll /\ gameData.players # <<>>) =>
        \A i \in 1..Len(gameData.votedPlayerIds) :
            gameData.votedPlayerIds[i] \in AliveIdSet(gameData.players)

\* C14: within one game the ids of players are pairwise distinct, and every
\* event other than game_created leaves every id of players in players.
IdSet(players) == {players[i].id : i \in 1..Len(players)}
C14_PlayersNeverShrink ==
    /\ [](Cardinality(IdSet(gameData.players)) = Len(gameData.players))
    /\ [][(op'.name = "effect" /\ op'.action # "game_created") =>
            IdSet(gameData.players) \subseteq IdSet(gameData'.players)]_vars

\* C15: a night_result with a roster keeps the role and roleName known before
\* for every id that is in players before and in the roster; a night_result
\* without a roster leaves players unchanged.
C15_NightResultKeepsRoles ==
    [][(op'.name = "effect" /\ op'.action = "night_result") =>
          IF lastMessage.data.players = None
          THEN gameData'.players = gameData.players
          ELSE \A i \in 1..Len(gameData.players), j \in 1..Len(gameData'.players) :
                   gameData.players[i].id = gameData'.players[j].id =>
                       /\ gameData'.players[j].role = gameData.players[i].role
                       /\ gameData'.players[j].roleName = gameData.players[i].roleName]_vars

\* A night_result with the full roster was applied after the roles had been
\* revealed: both players still carry their roles, with the new status.
C15_Witness ==
    /\ op.name = "effect" /\ op.action = "night_result"
    /\ lastMessage.data.players # None
    /\ Len(gameData.players) = 2
    /\ gameData.players[1].role = "seer" /\ gameData.players[1].roleName = "seer_name"
    /\ gameData.players[2].role = "werewolf" /\ gameData.players[2].isAlive = FALSE
    /\ gameData.nightMessages = <<"night_news">>

\* C16: in a phase that asks no input of the player (waiting, the day
\* announcement, game_over) actionRequired is null.
NoInputPhases == {"waiting", "day", "day_announce", "game_over"}
C16_NoActionInQuietPhase ==
    gameData.phase \in NoInputPhases => gameData.actionRequired = NoAction

\* C17: whenever result is not ongoing, phase is game_over.
C17_ResultIsTerminal ==
    gameData.result # "ongoing" => gameData.phase = "game_over"

\* C18: round and phase change only when a phase_change or a game_started
\* event is applied; any other event and any command leaves both unchanged
\* (the local reset, which is neither, is left aside).
C18_OnlyPhaseEventsMove ==
    [][(gameData'.phase # gameData.phase \/ gameData'.round # gameData.round) =>
           \/ op'.name = "resetGame"
           \/ /\ op'.name = "effect"
              /\ op'.action \in {"phase_change", "game_started"}]_vars

\* C18 as amended: phase changes only when a phase_change, a game_started or
\* a game_over event is applied, and game_over sets it to game_over; round
\* changes only when a phase_change or a game_started event is applied; any
\* other event and any command leaves both unchanged (the local reset sets
\* both to their initial values).
C18_PhaseEventsAndGameOverMove ==
    [][/\ gameData'.phase # gameData.phase =>
            \/ op'.name = "resetGame"
            \/ /\ op'.name = "effect"
               /\ op'.action \in {"phase_change", "game_started", "game_over"}
       /\ gameData'.round # gameData.round =>
            \/ op'.name = "resetGame"
            \/ /\ op'.name = "effect"
               /\ op'.action \in {"phase_change", "game_started"}
       /\ (op'.name = "effect" /\ op'.action = "game_over") =>
            gameData'.phase = "game_over"
       /\ op'.name = "resetGame" =>
            gameData'.phase = "waiting" /\ gameData'.round = 0]_vars

\* game_over was applied after game_started: phase moved from night to
\* game_over and round stayed.
C18_Witness ==
    /\ op.name = "effect" /\ op.action = "game_over"
    /\ applied = <<1, 2>>
    /\ messageQueue[1].type = "game_started"
    /\ gameData.phase = "game_over"
    /\ gameData.round = 1

\* C19: resetGame, from any state, yields the game state the client starts
\* with, field by field (teammates the empty list), and leaves the flag, the
\* session, the heartbeat and the reconnect timer unchanged.
C19_ResetRestoresInitial ==
    [][op'.name = "resetGame" =>
           /\ gameData' = InitialGameData
           /\ UNCHANGED connVars]_vars

\* C20: performAction(action, data) hands one frame of type action with the
\* payload {action, data} to sendMessage; for an action other than seer_check
\* it sets actionRequired to null at once, whatever it was; for seer_check it
\* leaves actionRequired as it is, and nothing but a later event (or another
\* performAction) changes it afterwards.  No other field of gameData changes.
C20_PerformActionClearsLocally ==
    [][/\ op'.name = "performAction" =>
            /\ wire' = IF IsOpen
                       THEN Append(wire, [type |-> "action",
                                          data |-> [action |-> op'.action,
                                                    data |-> [target_id |-> 1]]])
                       ELSE wire
            /\ gameData'.actionRequired =
                   IF op'.action = "seer_check" THEN gameData.actionRequired
                   ELSE NoAction
            /\ gameData' = [gameData EXCEPT !.actionRequired = gameData'.actionRequired]
       /\ gameData'.actionRequired # gameData.actionRequired =>
            op'.name \in {"effect", "performAction"}]_vars

\* A seer_check was sent on the open session while its requirement was
\* shown: the requirement is still there.
C20_Witness ==
    /\ op.name = "performAction" /\ op.action = "seer_check"
    /\ gameData.actionRequired # NoAction
    /\ gameData.actionRequired.action = "seer_check"
    /\ IsOpen
    /\ wire = <<[type |-> "action",
                 data |-> [action |-> "seer_check", data |-> [target_id |-> 1]]]>>

\* What createGame, startGame and confirmRole hand to sendMessage.
CommandFrame(name, arg) ==
    CASE name = "createGame" -> [type |-> "create_game", data |-> [player_name |-> arg]]
      [] name = "startGame" -> [type |-> "start_game", data |-> NoData]
      [] name = "confirmRole" ->
             [type |-> "action", data |-> [action |-> "role_confirmed", data |-> NoData]]
PureCommands == {"createGame", "startGame", "confirmRole"}
HandsOneFrame ==
    wire' = IF IsOpen THEN Append(wire, CommandFrame(op'.name, op'.action)) ELSE wire

\* C21: createGame(name), startGame() and confirmRole() each hand exactly one
\* frame to sendMessage (create_game with player_name, start_game with empty
\* data, action with action role_confirmed) and change no field of gameData.
C21_CommandsArePure ==
    [][op'.name \in PureCommands => (HandsOneFrame /\ gameData' = gameData)]_vars

\* C21 as amended: each of the three hands exactly that one frame to
\* sendMessage; createGame and startGame change no field of gameData, and
\* confirmRole sets hasConfirmedRole to true and changes no other field.
C21_CommandsTranslate ==
    [][op'.name \in PureCommands =>
          /\ HandsOneFrame
          /\ gameData' = IF op'.name = "confirmRole"
                         THEN [gameData EXCEPT !.hasConfirmedRole = TRUE]
                         ELSE gameData]_vars

\* confirmRole was called on the open session: its frame is sent and the
\* role counts as confirmed.
C21_Witness ==
    /\ op.name = "confirmRole"
    /\ IsOpen
    /\ wire = <<CommandFrame("confirmRole", "")>>
    /\ gameData.hasConfirmedRole
    /\ gameData = [InitialGameData EXCEPT !.hasConfirmedRole = TRUE]

\* C22: the event queue is append-only and keeps the order of arrival: every
\* step leaves the queue it found as a prefix of the queue it leaves, and at
\* any time the queue holds every forwarded frame, the i-th at place i.
C22_QueueAppendOnly ==
    /\ [][/\ Len(messageQueue') >= Len(messageQueue)
          /\ SubSeq(messageQueue', 1, Len(messageQueue)) = messageQueue]_vars
    /\ [](/\ Len(messageQueue) = lastMessage.id
          /\ \A i \in 1..Len(messageQueue) : messageQueue[i].id = i)

\* The event kinds the reducer declares: the cases of the switch.
DeclaredKinds ==
    {"announcement", "reset_vote", "game_created", "role_assigned",
     "game_started", "phase_change", "action_required", "speaker_turn",
     "thinking_start", "player_voted", "night_action_change", "player_speech",
     "night_result", "vote_result", "seer_result", "hunter_shoot_result",
     "game_over"}

\* C23: an effect run on a frame whose type is no declared kind changes no
\* field of gameData, and it does not stop the reducer: it records the frame
\* as seen like any other, so the next forwarded frame makes the effect run
\* again, and a frame can still be received after it.
C23_UnknownKindIsNoOp ==
    /\ [][/\ (op'.name = "effect" /\ op'.action \notin DeclaredKinds)
               => (gameData' = gameData /\ effectDep' = lastMessage.id)
          /\ (op'.name = "onmessage" /\ Forwarded(op'.frame)) => EffectApplies']_vars
    /\ []((op.name = "effect" /\ op.action \notin DeclaredKinds
              /\ lastMessage.id < MaxFrames) => ENABLED ReceiveAny)

\* An undeclared frame was applied on top of a changed state, or before a
\* declared frame that then took effect.
C23_Witness ==
    /\ applied = <<1, 2>>
    /\ \/ /\ op.name = "effect" /\ op.action = "chat"
          /\ gameData.actionRequired # NoAction
       \/ /\ messageQueue[1].type = "chat"
          /\ op.name = "effect" /\ op.action = "phase_change"
          /\ gameData.phase = "day_vote"

\* C25: every effect step keeps the systemMessages it found as a prefix of
\* the systemMessages it leaves, whatever the type of the frame; and a step
\* on a night_result leaves exactly the old list followed by one entry for
\* each of data.messages, in the order of data.messages.
C25_SystemMessagesAppendOnly ==
    [][op'.name = "effect" =>
          /\ Len(gameData'.systemMessages) >= Len(gameData.systemMessages)
          /\ SubSeq(gameData'.systemMessages, 1, Len(gameData.systemMessages))
                 = gameData.systemMessages
          /\ op'.action = "night_result" =>
                 gameData'.systemMessages =
                     gameData.systemMessages \o
                         [i \in 1..Len(lastMessage.data.messages) |->
                              Msg(lastMessage.data.messages[i], "", 0)]]_vars

\* A night_result with two messages was applied to a log that had an entry.
C25_Witness ==
    /\ op.name = "effect" /\ op.action = "night_result"
    /\ Len(lastMessage.data.messages) = 2
    /\ Len(gameData.systemMessages) = 3
    /\ gameData.systemMessages[2] = Msg("ann_died", "", 0)
    /\ gameData.systemMessages[3] = Msg("bot_saved", "", 0)

\* C26: an effect step on a vote_result that says it is a tie changes no
\* player's liveness, even if executed_id is the id of a player; one that is
\* not a tie makes exactly the player with executed_id dead and leaves every
\* other player as it was.  Stated for runs that applied every frame.
C26_TieKillsNobody ==
    [][(op'.name = "effect" /\ op'.action = "vote_result" /\ AppliedAll') =>
          /\ Len(gameData'.players) = Len(gameData.players)
          /\ \A i \in 1..Len(gameData.players) :
                 IF lastMessage.data.is_tie
                 THEN /\ gameData'.players[i].isAlive = gameData.players[i].isAlive
                      /\ gameData'.players[i].status = gameData.players[i].status
                 ELSE gameData'.players[i] =
                          IF gameData.players[i].id = lastMessage.data.executed_id
                          THEN [gameData.players[i] EXCEPT !.status = "dead",
                                                           !.isAlive = FALSE]
                          ELSE gameData.players[i]]_vars

\* The ids held by a list of ids.
IdSetOf(ids) == {ids[i] : i \in 1..Len(ids)}
\* C27: an effect step on a reset_vote leaves votedPlayerIds empty and
\* votingThinkingPlayerIds holding exactly the ids of the players that were
\* alive in the state it found, each once; no other field changes.
C27_ResetVoteSeedsThinking ==
    [][(op'.name = "effect" /\ op'.action = "reset_vote") =>
          /\ gameData'.votedPlayerIds = <<>>
          /\ IdSetOf(gameData'.votingThinkingPlayerIds) = AliveIdSet(gameData.players)
          /\ Len(gameData'.votingThinkingPlayerIds)
                 = Cardinality(AliveIdSet(gameData.players))
          /\ gameData' =
                 [gameData EXCEPT
                      !.votedPlayerIds = gameData'.votedPlayerIds,
                      !.votingThinkingPlayerIds = gameData'.votingThinkingPlayerIds]]_vars

\* reset_vote was applied to a roster of two with player 1 dead and a vote
\* on record: only player 2 is thinking.
C27_Witness ==
    /\ op.name = "effect" /\ op.action = "reset_vote"
    /\ Len(gameData.players) = 2
    /\ ~gameData.players[1].isAlive
    /\ \E i \in 1..Len(messageQueue) :
           messageQueue[i].type = "player_voted" /\ i < lastMessage.id
    /\ gameData.votedPlayerIds = <<>>
    /\ gameData.votingThinkingPlayerIds = <<2>>

\* Every frame received so far has been applied, in order.
AllApplied == AppliedAll /\ Len(applied) = Len(messageQueue)

\* The position of the last reset_vote received, 0 if there is none.
LastResetVote ==
    IF \E i \in 1..Len(messageQueue) : messageQueue[i].type = "reset_vote"
    THEN CHOOSE i \in 1..Len(messageQueue) :
             /\ messageQueue[i].type = "reset_vote"
             /\ \A j \in (i + 1)..Len(messageQueue) :
                    messageQueue[j].type # "reset_vote"
    ELSE 0

\* Since the last reset_vote only player_voted frames came, with pairwise
\* distinct ids.
DistinctVotesSinceReset ==
    /\ LastResetVote > 0
    /\ \A i \in (LastResetVote + 1)..Len(messageQueue) :
           messageQueue[i].type = "player_voted"
    /\ \A i, j \in (LastResetVote + 1)..Len(messageQueue) :
           i # j => messageQueue[i].data.player_id # messageQueue[j].data.player_id

\* C28: votedPlayerIds never holds an id twice; an effect step on a
\* player_voted whose id is already in votedPlayerIds changes nothing of
\* gameData; and when a reset_vote and then N player_voted frames with
\* pairwise distinct ids have been applied, votedPlayerIds has N entries and
\* none of them is in votingThinkingPlayerIds.
C28_PlayerVotedIdempotent ==
    /\ [](Cardinality(IdSetOf(gameData.votedPlayerIds))
              = Len(gameData.votedPlayerIds))
    /\ [][(/\ op'.name = "effect" /\ op'.action = "player_voted"
           /\ lastMessage.data.player_id \in IdSetOf(gameData.votedPlayerIds))
              => gameData' = gameData]_vars
    /\ []((AllApplied /\ DistinctVotesSinceReset) =>
              /\ Len(gameData.votedPlayerIds) = Len(messageQueue) - LastResetVote
              /\ IdSetOf(gameData.votedPlayerIds)
                     \cap IdSetOf(gameData.votingThinkingPlayerIds) = {})

\* A vote of player 1 was applied twice in a row, then reset_vote, then the
\* votes of players 1 and 2: both are counted once and nobody is thinking.
C28_Witness ==
    /\ AllApplied
    /\ Len(messageQueue) = 6
    /\ [i \in 1..6 |-> messageQueue[i].type] =
           <<"game_created", "player_voted", "player_voted", "reset_vote",
             "player_voted", "player_voted">>
    /\ messageQueue[2].data.player_id = 1 /\ messageQueue[3].data.player_id = 1
    /\ DistinctVotesSinceReset
    /\ gameData.votedPlayerIds = <<1, 2>>
    /\ gameData.votingThinkingPlayerIds = <<>>

\* C29: an effect step on an announcement sets announcement to the text of
\* the frame; it leaves actionRequired null if the text holds the marker and
\* as it was if not; phase, round, votedPlayerIds and votingThinkingPlayerIds
\* stay as they were either way.
C29_AnnouncementClearsOnMarker ==
    [][(op'.name = "effect" /\ op'.action = "announcement") =>
          /\ gameData'.announcement = <<lastMessage.data.content>>
          /\ gameData'.actionRequired =
                 IF \E i \in DOMAIN lastMessage.data.content :
                        lastMessage.data.content[i] = CloseEyesMarker
                 THEN NoAction
                 ELSE gameData.actionRequired
          /\ gameData'.phase = gameData.phase
          /\ gameData'.round = gameData.round
          /\ gameData'.votedPlayerIds = gameData.votedPlayerIds
          /\ gameData'.votingThinkingPlayerIds
                 = gameData.votingThinkingPlayerIds]_vars

\* In a started game with a vote on record, an announcement with the marker
\* was applied, then a requirement, then an announcement without the marker:
\* the requirement is still there.
C29_Witness ==
    /\ AllApplied
    /\ op.name = "effect" /\ op.action = "announcement"
    /\ \E i \in 1..Len(messageQueue) :
           /\ messageQueue[i].type = "announcement"
           /\ messageQueue[i].data.content = <<"wolves", CloseEyesMarker>>
           /\ \E j \in (i + 1)..Len(messageQueue) :
                  messageQueue[j].type = "action_required"
    /\ gameData.announcement = <<(<<"day", "breaks">>)>>
    /\ gameData.actionRequired # NoAction
    /\ gameData.phase = "night" /\ gameData.round = 1
    /\ gameData.votedPlayerIds = <<1>>

\* C30: an effect step on a game_over sets phase to game_over and result to
\* data.result, and leaves players holding one entry for each entry of
\* data.roles, in that order, with its id, name, role, role name and
\* liveness; the entry is human exactly if the state found had a player of
\* that id who was human.
C30_GameOverRevealsRoster ==
    [][(op'.name = "effect" /\ op'.action = "game_over") =>
          /\ gameData'.phase = "game_over"
          /\ gameData'.result = lastMessage.data.result
          /\ Len(gameData'.players) = Len(lastMessage.data.roles)
          /\ \A i \in 1..Len(lastMessage.data.roles) :
                 LET r == lastMessage.data.roles[i]
                     p == gameData'.players[i]
                 IN  /\ p.id = r.id /\ p.name = r.name
                     /\ p.role = r.role /\ p.roleName = r.role_name
                     /\ p.isAlive = r.is_alive
                     /\ p.status = IF r.is_alive THEN "alive" ELSE "dead"
                     /\ p.isHuman =
                            \E j \in 1..Len(gameData.players) :
                                /\ gameData.players[j].id = r.id
                                /\ gameData.players[j].isHuman]_vars

\* game_over was applied to the roster of game_created: player 1 is still the
\* human and now a seer, player 2 a dead werewolf.
C30_Witness ==
    /\ AllApplied
    /\ op.name = "effect" /\ op.action = "game_over"
    /\ messageQueue[1].type = "game_created"
    /\ gameData.phase = "game_over" /\ gameData.result = "villagers_win"
    /\ Len(gameData.players) = 2
    /\ gameData.players[1].isHuman /\ gameData.players[1].role = "seer"
    /\ ~gameData.players[2].isHuman /\ gameData.players[2].role = "werewolf"
    /\ ~gameData.players[2].isAlive

\* C31: an effect step on a player_speech, whether or not its speech is
\* already recorded, leaves thinkingPlayerId null; it leaves actionRequired
\* null if the requirement it found was of kind speak and leaves any other
\* requirement (or none) as it was.
C31_SpeechClearsThinking ==
    [][(op'.name = "effect" /\ op'.action = "player_speech") =>
          /\ gameData'.thinkingPlayerId = NULL
          /\ gameData'.actionRequired =
                 IF gameData.actionRequired # NoAction
                        /\ gameData.actionRequired.action = "speak"
                 THEN NoAction
                 ELSE gameData.actionRequired]_vars

\* The speech of player 1 was applied, then player 2 started thinking and a
\* vote was required, then the same speech came again: nobody is thinking,
\* the vote is still required and the speech is recorded once.
C31_Witness ==
    /\ AllApplied
    /\ op.name = "effect" /\ op.action = "player_speech"
    /\ [i \in 1..Len(messageQueue) |-> messageQueue[i].type] =
           <<"player_speech", "thinking_start", "action_required", "player_speech">>
    /\ messageQueue[3].data.action = "vote"
    /\ gameData.thinkingPlayerId = NULL
    /\ gameData.actionRequired # NoAction
    /\ gameData.actionRequired.action = "vote"
    /\ Len(gameData.speeches) = 1

\* C32: a connect() in which new WebSocket(...) throws (it did not return
\* early, and the constructor fails) only reports: no timer is set and the
\* timer handle is as before, isConnected was false and stays false, and
\* wsRef and every session are as before.
C32_FailedConnectOnlyReports ==
    [][(op'.name = "connect" /\ ~ConnectReturnsEarly /\ ~wsUrlValid) =>
          /\ timers' = timers
          /\ reconnectTimeoutRef' = reconnectTimeoutRef
          /\ ~isConnected /\ ~isConnected'
          /\ wsRef' = wsRef
          /\ ws' = ws]_vars

\* connect() was called where the constructor throws: nothing is held and
\* nothing is pending.
C32_Witness ==
    /\ op.name = "connect" /\ ~wsUrlValid
    /\ wsRef = NULL /\ ~isConnected /\ timers = {}
    /\ \A s \in Sessions : ws[s] = "CLOSED"

\* C33: at most one session is connecting or open at any time, whatever the
\* order of connect() calls, reconnect timers and callbacks; and a frame is
\* only ever forwarded from the session the manager holds.
C33_OneLiveSession ==
    /\ [](Cardinality(LiveSessions) <= 1)
    /\ [][(op'.name = "onmessage" /\ Forwarded(op'.frame)) => op'.s = wsRef]_vars

\* No handshake and no close is under way: every session is open or closed.
CallbacksDone == \A s \in Sessions : ws[s] \in {"OPEN", "CLOSED"}

\* C34: once the pending callbacks have run, isConnected is true exactly
\* when the session wsRef holds is open; and the close callback of a session
\* that wsRef does not hold never leaves isConnected false while the held
\* session is open.
C34_FlagTracksHeldSession ==
    /\ [](CallbacksDone => (isConnected <=> IsOpen))
    /\ [][(op'.name = "onclose" /\ op'.s # wsRef' /\ IsOpen') => isConnected']_vars

\* C35: the heartbeat interval is running exactly when the session wsRef
\* holds is open; there is never more than one interval; and a heartbeat
\* that fires puts a ping on the wire only if the held session is open.
C35_HeartbeatTracksHeldSession ==
    /\ [](intervals # {} <=> IsOpen)
    /\ [](Cardinality(intervals) <= 1)
    /\ [][op'.name = "heartbeat" =>
              wire' = IF IsOpen THEN Append(wire, Frame("ping", NoData))
                      ELSE wire]_vars

\* C36: at most one reconnect timer is pending at any time and
\* reconnectTimeoutRef names it, so that after any disconnect() no reconnect
\* timer is pending.
C36_OneReconnectTimer ==
    /\ [](Cardinality(timers) <= 1 /\ timers \subseteq {reconnectTimeoutRef})
    /\ [][op'.name = "disconnect" => timers' = {}]_vars

\* C37: a performAction with an action other than seer_check, called while
\* the held session is not open, puts nothing on the wire and still leaves
\* actionRequired null.  Nothing afterwards makes up for it: a frame goes on
\* the wire only in the step of the command that hands it over, while the
\* session is open, and a null actionRequired becomes a requirement again
\* only by applying an action_required frame of the server.
C37_DroppedActionStillClears ==
    [][/\ (op'.name = "performAction" /\ op'.action # "seer_check" /\ ~IsOpen) =>
              (wire' = wire /\ gameData'.actionRequired = NoAction)
       /\ wire' # wire =>
              /\ op'.name = "performAction" /\ IsOpen
              /\ wire' = Append(wire, [type |-> "action",
                                       data |-> [action |-> op'.action,
                                                 data |-> [target_id |-> 1]]])
       /\ (gameData.actionRequired = NoAction /\ gameData'.actionRequired # NoAction) =>
              (op'.name = "effect" /\ op'.action = "action_required")]_vars

\* A vote was required, the session closed, and the player voted: nothing
\* is on the wire and the requirement is gone.
C37_Witness ==
    /\ op.name = "performAction" /\ op.action = "vote"
    /\ ~IsOpen /\ wsRef # NULL /\ ws[wsRef] = "CLOSED"
    /\ wire = <<>>
    /\ applied # <<>>
    /\ messageQueue[applied[Len(applied)]].type = "action_required"
    /\ messageQueue[applied[Len(applied)]].data.action = "vote"
    /\ gameData.actionRequired = NoAction

\* C38: every player of players has isAlive true exactly when its status is
\* alive; and an effect step changes the isAlive of a player it keeps exactly
\* when it changes that player's status.
C38_LivenessFieldsAgree ==
    /\ [](\A i \in 1..Len(gameData.players) :
              gameData.players[i].isAlive <=> gameData.players[i].status = "alive")
    /\ [][op'.name = "effect" =>
              \A i \in 1..Len(gameData.players), j \in 1..Len(gameData'.players) :
                  gameData.players[i].id = gameData'.players[j].id =>
                      (gameData'.players[j].isAlive # gameData.players[i].isAlive
                           <=> gameData'.players[j].status # gameData.players[i].status)]_vars

\* The vote executed player 1 of the roster of game_created: that player is
\* dead in both fields, the other alive in both.
C38_Witness ==
    /\ AllApplied
    /\ op.name = "effect" /\ op.action = "vote_result"
    /\ Len(gameData.players) = 2
    /\ gameData.players[1].status = "dead" /\ ~gameData.players[1].isAlive
    /\ gameData.players[2].status = "alive" /\ gameData.players[2].isAlive

\* The frames of type game_started applied so far, by their position in the
\* sequence of applied frames.
StartedAt == {i \in 1..Len(applied) : messageQueue[applied[i]].type = "game_started"}

\* The round of the last game_started applied, 0 if none was.
StartedRound ==
    IF StartedAt = {} THEN 0
    ELSE messageQueue[applied[CHOOSE i \in StartedAt :
                                  \A j \in StartedAt : j <= i]].data.round

\* C39: an effect step on a phase_change leaves round, players, speeches,
\* thinkingPlayerId and announcement as they were; so round is always the
\* round of the last game_started applied (0 if there was none), however
\* many phase changes came after it, and a speech that is recorded carries
\* that round.
C39_PhaseChangeKeepsRound ==
    /\ [][(op'.name = "effect" /\ op'.action = "phase_change") =>
              /\ gameData'.round = gameData.round
              /\ gameData'.players = gameData.players
              /\ gameData'.speeches = gameData.speeches
              /\ gameData'.thinkingPlayerId = gameData.thinkingPlayerId
              /\ gameData'.announcement = gameData.announcement]_vars
    /\ [](gameData.round = StartedRound)
    /\ [][(/\ op'.name = "effect" /\ op'.action = "player_speech"
           /\ Len(gameData'.speeches) = Len(gameData.speeches) + 1) =>
              gameData'.speeches[Len(gameData'.speeches)].round = StartedRound]_vars

\* The game started in round 2, player 2 started thinking, an announcement
\* came, the phase changed twice, and then player 1 spoke: the speech is of
\* round 2 and of the phase of the second change.
C39_Witness ==
    /\ AllApplied
    /\ [i \in 1..Len(messageQueue) |-> messageQueue[i].type] =
           <<"game_started", "thinking_start", "announcement", "phase_change",
             "phase_change", "player_speech">>
    /\ messageQueue[5].data.phase = "day_vote"
    /\ gameData.round = 2
    /\ gameData.announcement # None
    /\ Len(gameData.speeches) = 1
    /\ gameData.speeches[1].round = 2
    /\ gameData.speeches[1].phase = "day_vote"

=============================================================================
